---- MODULE Spec2Model ----
(***************************************************************************)
(* Virtual Patient Simulator (src/app.py): the session manager, the        *)
(* conversation handler, the diagnostic evaluator and the Streamlit page   *)
(* main() that dispatches to them.                                         *)
(*                                                                         *)
(* A Python method is an operator from the object's fields (a record) and  *)
(* the behaviour of the LLM on this call to a result record                *)
(*   [mgr | handler, outcome, value, req]                                  *)
(* where outcome is "ok" or the name of the exception that left the        *)
(* method, value is the returned value and req is the chat-completion      *)
(* request the call issued (NoRequest when it issued none).  Assignments   *)
(* made before an exception is raised are kept, as in Python.              *)
(***************************************************************************)
EXTENDS Integers, Sequences, FiniteSets, TLC

VARIABLES
    api_key_input,      \* value of the "Enter Groq API Key" text input
    ss_api_key,         \* st.session_state.api_key
    client,             \* Llama3Processor.client (class attribute)
    session_manager,    \* st.session_state.session_manager
    patient_loaded,     \* st.session_state.patient_loaded
    chat_history,       \* st.session_state.chat_history
    diagnosis_submitted,\* st.session_state.diagnosis_submitted
    diagnosis_result,   \* st.session_state.diagnosis_result
    ret,                \* what the last operation returned or raised
    llm_request,        \* the LLM request issued by the last operation
    history,            \* record of the calls made since the case started
    sessions            \* browser sessions served by the same process, each
                        \* with its own script thread

vars == <<api_key_input, ss_api_key, client, session_manager, patient_loaded,
          chat_history, diagnosis_submitted, diagnosis_result, ret,
          llm_request, history, sessions>>

-----------------------------------------------------------------------------
(* Bounds *)

\* questions per case: through the manager's methods, through the page, and
\* in the conversation-only specification
MaxAsk == 2
UiMaxAsk == 2
MaxTurns == 5
\* exams per case: through the manager's methods and through the page
MaxExams == 2
UiMaxExams == 1

-----------------------------------------------------------------------------
(* Values *)

None == "None"
NoneObj == [none |-> TRUE]
NoRequest == [sent |-> FALSE]
Absent == [absent |-> TRUE]
LLMFail == [error |-> "LLMError"]

Keys == {"gsk_A"}
\* two browser sessions and the credential each user holds
Sessions == {1, 2}
SessionKey == <<"gsk_A", "gsk_B">>
Questions == {"q1", "q2"}
ExamAreas == {"General", "Cardiovascular"}
Topics == {"", "chest pain"}
Diagnoses == {"myocardial infarction"}
Reasonings == {"because"}

PatientProfile ==
    { [patient_id |-> "P1", chief_complaint |-> "cc1",
       vital_signs |-> [temperature |-> "98.6F", blood_pressure |-> "120/80",
                        heart_rate |-> "75", respiratory_rate |-> "16",
                        oxygen_saturation |-> "98%"],
       physical_exam_findings |-> "findings1",
       probable_diagnosis |-> "dx1",
       differential_diagnoses |-> <<"dd1", "dd2">>],
      [patient_id |-> "P2", chief_complaint |-> "cc2",
       vital_signs |-> [temperature |-> "101.2F", blood_pressure |-> "150/95",
                        heart_rate |-> "110", respiratory_rate |-> "22",
                        oxygen_saturation |-> "93%"],
       physical_exam_findings |-> "findings2",
       probable_diagnosis |-> "dx2",
       differential_diagnoses |-> <<"dd3">>] }

PatientResponse ==
    { [response_text |-> "a1", reveals_info |-> <<"f1">>, emotional_tone |-> "neutral"],
      [response_text |-> "a2", reveals_info |-> <<"f2", "f1", "f2">>, emotional_tone |-> "worried"] }

DiagnosticEvaluation ==
    { [is_correct |-> TRUE, accuracy_score |-> 90],
      [is_correct |-> FALSE, accuracy_score |-> 40] }

\* what the page is explored with: one question text, one exam area, one
\* patient reply and one evaluation (besides a failing request)
UiQuestions == {"q1"}
UiExamAreas == {"General"}
UiResponses ==
    { [response_text |-> "a2", reveals_info |-> <<"f2", "f1", "f2">>, emotional_tone |-> "worried"] }
UiEvaluations == { [is_correct |-> FALSE, accuracy_score |-> 40] }

FallbackConditions ==
    <<"hypertension", "diabetes", "chest pain", "headache", "fever",
      "abdominal pain", "shortness of breath">>

hints ==
    <<"Consider asking about the onset and progression of symptoms.",
      "Have you checked the patient's vital signs?",
      "Think about risk factors relevant to this age group.",
      "Consider asking about associated symptoms.",
      "What about the patient's past medical history?",
      "Are there any red flags that require immediate attention?",
      "Consider the patient's medications - any relevant interactions?",
      "Think about the differential diagnoses for this presentation.">>

-----------------------------------------------------------------------------
(* Python helpers *)

Range(s) == { s[i] : i \in 1..Len(s) }

\* s[-n:]
LastN(s, n) == SubSeq(s, IF Len(s) > n THEN Len(s) - n + 1 ELSE 1, Len(s))

IsPrefix(s, t) == Len(s) <= Len(t) /\ SubSeq(t, 1, Len(s)) = s

-----------------------------------------------------------------------------
(* Llama3Processor *)

\* One chat-completion call through the class-wide client.  llm is what the
\* service and the output parser do with this call: LLMFail (network error,
\* quota, a reply that fails the schema) or a parsed object.
prompt_llama3(cl, kind, text, llm) ==
    IF cl = None
    THEN [outcome |-> "AttributeError", value |-> NoneObj, req |-> NoRequest]
    ELSE [outcome |-> IF llm = LLMFail THEN "LLMError" ELSE "ok",
          value   |-> llm,
          req     |-> [sent |-> TRUE, client |-> cl, schema |-> kind, text |-> text]]

(* VirtualPatientGenerator *)

generate_patient(cl, disease_or_symptoms, llm) ==
    prompt_llama3(cl, "PatientProfile", [topic |-> disease_or_symptoms], llm)

-----------------------------------------------------------------------------
(* PatientConversationHandler *)

PatientConversationHandler_init(patient_profile) ==
    [patient_profile      |-> patient_profile,
     conversation_history |-> <<>>,
     revealed_information |-> {},
     question_count       |-> 0]

\* The "RECENT CONVERSATION" block: one "Student asked / You responded" entry
\* per turn of recent_history, the revealed facts are not part of it.
history_text(turns) ==
    [i \in 1..Len(turns) |-> [student |-> turns[i].student, patient |-> turns[i].patient]]

\* Variant: the window is taken from the front, conversation_history[:3].
recent_history_front(conversation_history) ==
    SubSeq(conversation_history, 1,
           IF Len(conversation_history) < 3 THEN Len(conversation_history) ELSE 3)

recent_history(conversation_history) ==
    IF Len(conversation_history) > 0 THEN LastN(conversation_history, 3) ELSE <<>>

\* Variant: the handler keeps only the window it shows to the model.
respond_to_question_window(h, cl, student_question, llm) ==
    LET counted == [h EXCEPT !.question_count = @ + 1]
        context == [profile  |-> h.patient_profile.patient_id,
                    recent   |-> history_text(recent_history(h.conversation_history)),
                    question |-> student_question]
        r == prompt_llama3(cl, "PatientResponse", context, llm)
    IN  IF r.outcome # "ok"
        THEN [handler |-> counted, outcome |-> r.outcome, value |-> NoneObj, req |-> r.req]
        ELSE [handler |-> [counted EXCEPT
                            !.conversation_history =
                                LastN(Append(@, [student      |-> student_question,
                                                 patient      |-> r.value.response_text,
                                                 reveals_info |-> r.value.reveals_info]), 3),
                            !.revealed_information = @ \cup Range(r.value.reveals_info)],
              outcome |-> "ok", value |-> r.value, req |-> r.req]

respond_to_question(h, cl, student_question, llm) ==
    LET counted == [h EXCEPT !.question_count = @ + 1]
        context == [profile  |-> h.patient_profile.patient_id,
                    recent   |-> history_text(recent_history(h.conversation_history)),
                    question |-> student_question]
        r == prompt_llama3(cl, "PatientResponse", context, llm)
    IN  IF r.outcome # "ok"
        THEN [handler |-> counted, outcome |-> r.outcome, value |-> NoneObj, req |-> r.req]
        ELSE [handler |-> [counted EXCEPT
                            !.conversation_history =
                                Append(@, [student      |-> student_question,
                                           patient      |-> r.value.response_text,
                                           reveals_info |-> r.value.reveals_info]),
                            !.revealed_information = @ \cup Range(r.value.reveals_info)],
              outcome |-> "ok", value |-> r.value, req |-> r.req]

-----------------------------------------------------------------------------
(* DiagnosticEvaluator *)

\* Variant: the profile is read with defaults, so a None profile still
\* reaches prompt_llama3.
evaluate_lenient(cl, patient_profile, student_diagnosis, questions_asked, reasoning, llm) ==
    prompt_llama3(cl, "DiagnosticEvaluation",
                  [correct   |-> IF patient_profile = NoneObj THEN None
                                 ELSE patient_profile.probable_diagnosis,
                   diagnosis |-> student_diagnosis,
                   reasoning |-> reasoning,
                   questions |-> questions_asked,
                   vitals    |-> IF patient_profile = NoneObj THEN NoneObj
                                 ELSE patient_profile.vital_signs],
                  llm)

\* Building the context subscripts patient_profile, so a None profile raises
\* TypeError before prompt_llama3 is reached.
evaluate(cl, patient_profile, student_diagnosis, questions_asked, reasoning, llm) ==
    IF patient_profile = NoneObj
    THEN [outcome |-> "TypeError", value |-> NoneObj, req |-> NoRequest]
    ELSE prompt_llama3(cl, "DiagnosticEvaluation",
                       [correct   |-> patient_profile.probable_diagnosis,
                        diagnosis |-> student_diagnosis,
                        reasoning |-> reasoning,
                        questions |-> questions_asked,
                        vitals    |-> patient_profile.vital_signs],
                       llm)

-----------------------------------------------------------------------------
(* PatientSessionManager *)

PatientSessionManager_init ==
    [current_patient         |-> NoneObj,
     conversation_handler    |-> NoneObj,
     questions_asked         |-> <<>>,
     session_start_time      |-> None,
     vitals_checked          |-> FALSE,
     physical_exam_performed |-> <<>>]

\* Variant: the exam and vitals metadata of the previous case are kept.
start_new_session_keep(m, cl, disease_or_symptoms, llm) ==
    LET r == generate_patient(cl, disease_or_symptoms, llm)
    IN  IF r.outcome # "ok"
        THEN [mgr |-> m, outcome |-> r.outcome, value |-> NoneObj, req |-> r.req]
        ELSE [mgr |-> [current_patient         |-> r.value,
                       conversation_handler    |-> PatientConversationHandler_init(r.value),
                       questions_asked         |-> <<>>,
                       session_start_time      |-> "now",
                       vitals_checked          |-> m.vitals_checked,
                       physical_exam_performed |-> m.physical_exam_performed],
              outcome |-> "ok",
              value   |-> [patient_id           |-> r.value.patient_id,
                           initial_presentation |-> r.value.chief_complaint],
              req     |-> r.req]

start_new_session(m, cl, disease_or_symptoms, llm) ==
    LET r == generate_patient(cl, disease_or_symptoms, llm)
    IN  IF r.outcome # "ok"
        THEN [mgr |-> m, outcome |-> r.outcome, value |-> NoneObj, req |-> r.req]
        ELSE [mgr |-> [current_patient         |-> r.value,
                       conversation_handler    |-> PatientConversationHandler_init(r.value),
                       questions_asked         |-> <<>>,
                       session_start_time      |-> "now",
                       vitals_checked          |-> FALSE,
                       physical_exam_performed |-> <<>>],
              outcome |-> "ok",
              value   |-> [patient_id           |-> r.value.patient_id,
                           initial_presentation |-> r.value.chief_complaint],
              req     |-> r.req]

\* Variant: a question already in the list is not recorded again.
ask_question_dedup(m, cl, question, llm) ==
    LET m1 == IF question \in Range(m.questions_asked) THEN m
              ELSE [m EXCEPT !.questions_asked = Append(@, question)]
    IN  IF m.conversation_handler = NoneObj
        THEN [mgr |-> m1, outcome |-> "AttributeError", value |-> NoneObj, req |-> NoRequest]
        ELSE LET r == respond_to_question(m.conversation_handler, cl, question, llm)
             IN  [mgr     |-> [m1 EXCEPT !.conversation_handler = r.handler],
                  outcome |-> r.outcome, value |-> r.value, req |-> r.req]

ask_question(m, cl, question, llm) ==
    LET m1 == [m EXCEPT !.questions_asked = Append(@, question)]
    IN  IF m.conversation_handler = NoneObj
        THEN [mgr |-> m1, outcome |-> "AttributeError", value |-> NoneObj, req |-> NoRequest]
        ELSE LET r == respond_to_question(m.conversation_handler, cl, question, llm)
             IN  [mgr     |-> [m1 EXCEPT !.conversation_handler = r.handler],
                  outcome |-> r.outcome, value |-> r.value, req |-> r.req]

\* Variant: the vitals are returned without recording the check.
get_vital_signs_noflag(m) ==
    IF m.current_patient = NoneObj
    THEN [mgr |-> m, outcome |-> "TypeError", value |-> NoneObj, req |-> NoRequest]
    ELSE [mgr |-> m, outcome |-> "ok", value |-> m.current_patient.vital_signs,
          req |-> NoRequest]

get_vital_signs(m) ==
    LET m1 == [m EXCEPT !.vitals_checked = TRUE]
    IN  IF m.current_patient = NoneObj
        THEN [mgr |-> m1, outcome |-> "TypeError", value |-> NoneObj, req |-> NoRequest]
        ELSE [mgr |-> m1, outcome |-> "ok", value |-> m.current_patient.vital_signs,
              req |-> NoRequest]

\* Variant: an area already examined is not recorded again.
perform_physical_exam_dedup(m, exam_type) ==
    LET m1 == IF exam_type \in Range(m.physical_exam_performed) THEN m
              ELSE [m EXCEPT !.physical_exam_performed = Append(@, exam_type)]
    IN  IF m.current_patient = NoneObj
        THEN [mgr |-> m1, outcome |-> "TypeError", value |-> NoneObj, req |-> NoRequest]
        ELSE [mgr |-> m1, outcome |-> "ok",
              value |-> m.current_patient.physical_exam_findings, req |-> NoRequest]

perform_physical_exam(m, exam_type) ==
    LET m1 == [m EXCEPT !.physical_exam_performed = Append(@, exam_type)]
    IN  IF m.current_patient = NoneObj
        THEN [mgr |-> m1, outcome |-> "TypeError", value |-> NoneObj, req |-> NoRequest]
        ELSE [mgr |-> m1, outcome |-> "ok",
              value |-> m.current_patient.physical_exam_findings, req |-> NoRequest]

\* list(a_set): the elements once each, in an order the runtime picks.
Listings(S) == { s \in [1..Cardinality(S) -> S] : Range(s) = S }

\* listing is the order in which list() enumerates revealed_information.
submit_diagnosis(m, cl, diagnosis, reasoning, llm, listing) ==
    LET r == evaluate(cl, m.current_patient, diagnosis, m.questions_asked, reasoning, llm)
    IN  IF r.outcome # "ok"
        THEN [mgr |-> m, outcome |-> r.outcome, value |-> NoneObj, req |-> r.req]
        ELSE IF m.session_start_time = None \/ m.current_patient = NoneObj
        THEN [mgr |-> m, outcome |-> "TypeError", value |-> NoneObj, req |-> r.req]
        ELSE [mgr |-> m, outcome |-> "ok",
              value |-> [correct_diagnosis      |-> m.current_patient.probable_diagnosis,
                         differential_diagnoses |-> m.current_patient.differential_diagnoses,
                         student_diagnosis      |-> diagnosis,
                         evaluation             |-> r.value,
                         session_stats |->
                            [questions_asked |-> Len(m.questions_asked),
                             vitals_checked  |-> m.vitals_checked,
                             physical_exams  |-> m.physical_exam_performed,
                             revealed_info   |-> listing]],
              req |-> r.req]

\* Variant: the draw never reaches the last hint.
get_hint_short(m, choice) ==
    [mgr |-> m, outcome |-> "ok",
     value |-> hints[IF choice = Len(hints) THEN 1 ELSE choice], req |-> NoRequest]

\* choice is the index random.choice draws.
get_hint(m, choice) ==
    [mgr |-> m, outcome |-> "ok", value |-> hints[choice], req |-> NoRequest]

\* The orders list() may give the handler's revealed_information; the call
\* evaluates it only after evaluate() returned, so without a handler any
\* value stands in for it.
RevealedListings(m) ==
    IF m.conversation_handler = NoneObj THEN {<<>>}
    ELSE Listings(m.conversation_handler.revealed_information)

-----------------------------------------------------------------------------
(* State after construction *)

\* case: the profile the generator returned for the current case;
\* over: whether start_new_session ran on a manager that had been used;
\* asks/answered: ask_question calls, and those that returned;
\* vitals: whether get_vital_signs was called; exams: the areas examined.
NoHistory ==
    [case |-> NoneObj, over |-> FALSE, asks |-> 0, answered |-> 0,
     vitals |-> FALSE, exams |-> <<>>]

Returned(op, r) == [op |-> op, outcome |-> r.outcome, value |-> r.value]

ui_vars == <<api_key_input, ss_api_key, patient_loaded, chat_history,
             diagnosis_submitted, diagnosis_result, sessions>>

\* A session whose page has not run yet; pc is "idle" between runs and
\* "configured" while a run is between line 450 and its action.
NewSession ==
    [api_key_input |-> "", api_key |-> None, patient_loaded |-> FALSE,
     diagnosis_submitted |-> FALSE, pc |-> "idle"]

\* initialize_session_state() on the first run of the page; the class
\* attribute Llama3Processor.client starts as None.
initialize_session_state ==
    /\ api_key_input = ""
    /\ ss_api_key = None
    /\ client = None
    /\ session_manager = NoneObj
    /\ patient_loaded = FALSE
    /\ chat_history = <<>>
    /\ diagnosis_submitted = FALSE
    /\ diagnosis_result = Absent
    /\ ret = [op |-> "init", outcome |-> "ok", value |-> NoneObj]
    /\ llm_request = NoRequest
    /\ history = NoHistory
    /\ sessions = [s \in Sessions |-> NewSession]

Init == initialize_session_state

\* A PatientSessionManager() driven directly through its methods.
InitApi ==
    /\ api_key_input = ""
    /\ ss_api_key = None
    /\ client = None
    /\ session_manager = PatientSessionManager_init
    /\ patient_loaded = FALSE
    /\ chat_history = <<>>
    /\ diagnosis_submitted = FALSE
    /\ diagnosis_result = Absent
    /\ ret = [op |-> "init", outcome |-> "ok", value |-> NoneObj]
    /\ llm_request = NoRequest
    /\ history = NoHistory
    /\ sessions = [s \in Sessions |-> NewSession]

-----------------------------------------------------------------------------
(* The session manager's methods called directly, in any order *)

Api_set_client ==
    \E k \in Keys :
        /\ client' = k
        /\ ret' = [op |-> "set_client", outcome |-> "ok", value |-> NoneObj]
        /\ llm_request' = NoRequest
        /\ UNCHANGED <<session_manager, history, ui_vars>>

StartStep(topic, llm) ==
    LET r == start_new_session(session_manager, client, topic, llm)
    IN  /\ session_manager' = r.mgr
        /\ ret' = Returned("start_new_session", r)
        /\ llm_request' = r.req
        /\ history' = IF r.outcome = "ok"
                       THEN [NoHistory EXCEPT !.case = llm,
                                              !.over = (session_manager # PatientSessionManager_init)]
                       ELSE history
        /\ UNCHANGED <<client, ui_vars>>

AskStep(question, llm) ==
    LET r == ask_question(session_manager, client, question, llm)
    IN  /\ session_manager' = r.mgr
        /\ ret' = Returned("ask_question", r)
        /\ llm_request' = r.req
        /\ history' = [history EXCEPT !.asks = @ + 1,
                                      !.answered = IF r.outcome = "ok" THEN @ + 1 ELSE @]
        /\ UNCHANGED <<client, ui_vars>>

Api_start_new_session ==
    \E topic \in Topics, llm \in {LLMFail} \cup PatientProfile : StartStep(topic, llm)

Api_ask_question ==
    \E question \in Questions, llm \in {LLMFail} \cup PatientResponse :
        /\ Len(session_manager.questions_asked) < MaxAsk
        /\ AskStep(question, llm)

Conv_ask_question ==
    \E question \in Questions, llm \in {LLMFail} \cup PatientResponse :
        /\ Len(session_manager.questions_asked) < MaxTurns
        /\ AskStep(question, llm)

Api_get_vital_signs ==
    LET r == get_vital_signs(session_manager)
    IN  /\ session_manager' = r.mgr
        /\ ret' = Returned("get_vital_signs", r)
        /\ llm_request' = r.req
        /\ history' = [history EXCEPT !.vitals = TRUE]
        /\ UNCHANGED <<client, ui_vars>>

Api_perform_physical_exam ==
    \E exam_type \in ExamAreas :
        LET r == perform_physical_exam(session_manager, exam_type)
        IN  /\ Len(session_manager.physical_exam_performed) < MaxExams
            /\ session_manager' = r.mgr
            /\ ret' = Returned("perform_physical_exam", r)
            /\ llm_request' = r.req
            /\ history' = [history EXCEPT !.exams = Append(@, exam_type)]
            /\ UNCHANGED <<client, ui_vars>>

Api_submit_diagnosis ==
    \E diagnosis \in Diagnoses, reasoning \in Reasonings,
       llm \in {LLMFail} \cup DiagnosticEvaluation,
       listing \in RevealedListings(session_manager) :
        LET r == submit_diagnosis(session_manager, client, diagnosis, reasoning, llm, listing)
        IN  /\ session_manager' = r.mgr
            /\ ret' = Returned("submit_diagnosis", r)
            /\ llm_request' = r.req
            /\ UNCHANGED <<client, history, ui_vars>>

Api_get_hint ==
    \E choice \in 1..Len(hints) :
        LET r == get_hint(session_manager, choice)
        IN  /\ session_manager' = r.mgr
            /\ ret' = Returned("get_hint", r)
            /\ llm_request' = r.req
            /\ UNCHANGED <<client, history, ui_vars>>

NextApi ==
    \/ Api_set_client
    \/ Api_start_new_session
    \/ Api_ask_question
    \/ Api_get_vital_signs
    \/ Api_perform_physical_exam
    \/ Api_submit_diagnosis
    \/ Api_get_hint

SpecApi == InitApi /\ [][NextApi]_vars

\* The conversation alone, long enough to outgrow the three-turn window.
NextConv ==
    \/ Api_set_client
    \/ Api_start_new_session
    \/ Conv_ask_question

SpecConv == InitApi /\ [][NextConv]_vars

-----------------------------------------------------------------------------
(* The page: one action per run of main() that a widget event triggers *)

\* Variant: the check looks at the stored key instead of the input.
Configured_stored ==
    /\ ss_api_key # None
    /\ ss_api_key' = ss_api_key
    /\ client' = ss_api_key
    /\ UNCHANGED api_key_input

\* Lines 448-450 of a run that gets past the API-key check: the key is
\* stored and the class-wide client is rebuilt from it.
Configured ==
    /\ api_key_input # ""
    /\ ss_api_key' = api_key_input
    /\ client' = api_key_input
    /\ UNCHANGED api_key_input

\* The user edits the API-key input; no button is pressed in this run.
main_EnterApiKey ==
    \E k \in Keys \cup {""} :
        /\ api_key_input' = k
        /\ IF k # "" THEN ss_api_key' = k /\ client' = k
                     ELSE UNCHANGED <<ss_api_key, client>>
        /\ ret' = [op |-> "render", outcome |-> "ok", value |-> NoneObj]
        /\ llm_request' = NoRequest
        /\ UNCHANGED <<session_manager, patient_loaded, chat_history,
                       diagnosis_submitted, diagnosis_result, history, sessions>>

\* Variant: the reset leaves diagnosis_submitted as it is.
main_StartNewCase_keepflag ==
    /\ Configured
    /\ patient_loaded
    /\ session_manager' = NoneObj
    /\ patient_loaded' = FALSE
    /\ chat_history' = <<>>
    /\ ret' = [op |-> "start_new_case", outcome |-> "ok", value |-> NoneObj]
    /\ llm_request' = NoRequest
    /\ history' = NoHistory
    /\ UNCHANGED <<diagnosis_submitted, diagnosis_result, sessions>>

main_StartNewCase ==
    /\ Configured
    /\ patient_loaded
    /\ session_manager' = NoneObj
    /\ patient_loaded' = FALSE
    /\ chat_history' = <<>>
    /\ diagnosis_submitted' = FALSE
    /\ ret' = [op |-> "start_new_case", outcome |-> "ok", value |-> NoneObj]
    /\ llm_request' = NoRequest
    /\ history' = NoHistory
    /\ UNCHANGED <<diagnosis_result, sessions>>

\* Variant: patient_loaded is set before start_new_session is called.
main_GenerateCase_flagfirst ==
    \E typed \in Topics, pick \in 1..Len(FallbackConditions),
       llm \in {LLMFail} \cup PatientProfile :
        LET condition == IF typed = "" THEN FallbackConditions[pick] ELSE typed
            r == start_new_session(PatientSessionManager_init, api_key_input, condition, llm)
        IN  /\ Configured
            /\ ~patient_loaded
            /\ session_manager' = r.mgr
            /\ patient_loaded' = TRUE
            /\ ret' = Returned("start_new_session", r)
            /\ llm_request' = r.req
            /\ history' = IF r.outcome = "ok" THEN [NoHistory EXCEPT !.case = llm] ELSE history
            /\ UNCHANGED <<chat_history, diagnosis_submitted, diagnosis_result, sessions>>

\* pick is the index random.choice draws when the condition is left blank.
main_GenerateCase ==
    \E typed \in Topics, pick \in 1..Len(FallbackConditions),
       llm \in {LLMFail} \cup PatientProfile :
        LET condition == IF typed = "" THEN FallbackConditions[pick] ELSE typed
            r == start_new_session(PatientSessionManager_init, api_key_input, condition, llm)
        IN  /\ Configured
            /\ ~patient_loaded
            /\ session_manager' = r.mgr
            /\ patient_loaded' = (r.outcome = "ok")
            /\ ret' = Returned("start_new_session", r)
            /\ llm_request' = r.req
            /\ history' = IF r.outcome = "ok" THEN [NoHistory EXCEPT !.case = llm] ELSE history
            /\ UNCHANGED <<chat_history, diagnosis_submitted, diagnosis_result, sessions>>

main_GetHint ==
    \E choice \in 1..Len(hints) :
        LET r == get_hint(session_manager, choice)
        IN  /\ Configured
            /\ patient_loaded
            /\ session_manager' = r.mgr
            /\ ret' = Returned("get_hint", r)
            /\ llm_request' = r.req
            /\ UNCHANGED <<patient_loaded, chat_history, diagnosis_submitted,
                           diagnosis_result, history, sessions>>

main_AskQuestion ==
    \E question \in UiQuestions, llm \in {LLMFail} \cup UiResponses :
        LET r == ask_question(session_manager, api_key_input, question, llm)
        IN  /\ Configured
            /\ patient_loaded
            /\ Len(session_manager.questions_asked) < UiMaxAsk
            /\ session_manager' = r.mgr
            /\ chat_history' =
                  IF r.outcome = "ok"
                  THEN chat_history \o <<[type |-> "student", text |-> question],
                                         [type |-> "patient", text |-> r.value.response_text]>>
                  ELSE chat_history
            /\ ret' = Returned("ask_question", r)
            /\ llm_request' = r.req
            /\ history' = [history EXCEPT !.asks = @ + 1,
                                          !.answered = IF r.outcome = "ok" THEN @ + 1 ELSE @]
            /\ UNCHANGED <<patient_loaded, diagnosis_submitted, diagnosis_result, sessions>>

main_CheckVitals ==
    LET r == get_vital_signs(session_manager)
    IN  /\ Configured
        /\ patient_loaded
        /\ session_manager' = r.mgr
        /\ ret' = Returned("get_vital_signs", r)
        /\ llm_request' = r.req
        /\ history' = [history EXCEPT !.vitals = TRUE]
        /\ UNCHANGED <<patient_loaded, chat_history, diagnosis_submitted, diagnosis_result,
                       sessions>>

\* session_stats["physical_exams"] of a stored result is the manager's own
\* list object, so an exam on the same manager shows in the stored result.
main_PerformExam ==
    \E exam_area \in UiExamAreas :
        LET r == perform_physical_exam(session_manager, exam_area)
        IN  /\ Configured
            /\ patient_loaded
            /\ Len(session_manager.physical_exam_performed) < UiMaxExams
            /\ session_manager' = r.mgr
            /\ diagnosis_result' =
                  IF diagnosis_submitted
                  THEN [diagnosis_result EXCEPT
                           !.session_stats.physical_exams = r.mgr.physical_exam_performed]
                  ELSE diagnosis_result
            /\ ret' = Returned("perform_physical_exam", r)
            /\ llm_request' = r.req
            /\ history' = [history EXCEPT !.exams = Append(@, exam_area)]
            /\ UNCHANGED <<patient_loaded, chat_history, diagnosis_submitted, sessions>>

\* Variant: the form is shown whether or not a diagnosis was submitted.
main_SubmitDiagnosis_again ==
    /\ Configured
    /\ patient_loaded
    /\ \E diagnosis \in Diagnoses, reasoning \in Reasonings,
          llm \in {LLMFail} \cup UiEvaluations,
          listing \in RevealedListings(session_manager) :
           LET r == submit_diagnosis(session_manager, api_key_input, diagnosis, reasoning,
                                     llm, listing)
           IN  /\ session_manager' = r.mgr
               /\ diagnosis_result' = IF r.outcome = "ok" THEN r.value ELSE diagnosis_result
               /\ diagnosis_submitted' = (r.outcome = "ok" \/ diagnosis_submitted)
               /\ ret' = Returned("submit_diagnosis", r)
               /\ llm_request' = r.req
               /\ UNCHANGED <<patient_loaded, chat_history, history, sessions>>

main_SubmitDiagnosis ==
    /\ Configured
    /\ patient_loaded
    /\ ~diagnosis_submitted
    /\ \E diagnosis \in Diagnoses, reasoning \in Reasonings,
          llm \in {LLMFail} \cup UiEvaluations,
          listing \in RevealedListings(session_manager) :
           LET r == submit_diagnosis(session_manager, api_key_input, diagnosis, reasoning,
                                     llm, listing)
           IN  /\ session_manager' = r.mgr
               /\ diagnosis_result' = IF r.outcome = "ok" THEN r.value ELSE diagnosis_result
               /\ diagnosis_submitted' = (r.outcome = "ok")
               /\ ret' = Returned("submit_diagnosis", r)
               /\ llm_request' = r.req
               /\ UNCHANGED <<patient_loaded, chat_history, history, sessions>>

Next ==
    \/ main_EnterApiKey
    \/ main_StartNewCase
    \/ main_GenerateCase
    \/ main_GetHint
    \/ main_AskQuestion
    \/ main_CheckVitals
    \/ main_PerformExam
    \/ main_SubmitDiagnosis

Spec == Init /\ [][Next]_vars

-----------------------------------------------------------------------------
(* Two sessions in one process.  Each session's run of main() is a thread of
   its own: it rebuilds the class-wide client at line 450 and reads it again
   at line 86 when its action reaches prompt_llama3, and the other session's
   thread may run in between. *)

single_vars == <<api_key_input, ss_api_key, session_manager, patient_loaded,
                 chat_history, diagnosis_submitted, diagnosis_result, history>>

RunResult(s, op, outcome) ==
    [op |-> op, outcome |-> outcome, value |-> NoneObj, session |-> s]

\* The user of session s edits the API-key input; no button is pressed.
Two_EnterApiKey(s) ==
    \E k \in {"", SessionKey[s]} :
        /\ sessions[s].pc = "idle"
        /\ sessions' = [sessions EXCEPT ![s].api_key_input = k,
                                        ![s].api_key = IF k # "" THEN k ELSE @]
        /\ client' = IF k # "" THEN k ELSE client
        /\ ret' = RunResult(s, "render", "ok")
        /\ llm_request' = NoRequest
        /\ UNCHANGED single_vars

\* A button of session s was pressed: its run gets past lines 448-450.
Two_BeginRun(s) ==
    /\ sessions[s].pc = "idle"
    /\ sessions[s].api_key_input # ""
    /\ sessions' = [sessions EXCEPT ![s].api_key = sessions[s].api_key_input,
                                    ![s].pc = "configured"]
    /\ client' = sessions[s].api_key_input
    /\ ret' = RunResult(s, "configure", "ok")
    /\ llm_request' = NoRequest
    /\ UNCHANGED single_vars

Two_GenerateCase(s) ==
    \E topic \in Topics \ {""}, llm \in {LLMFail} \cup PatientProfile :
        LET r == generate_patient(client, topic, llm)
        IN  /\ sessions[s].pc = "configured"
            /\ ~sessions[s].patient_loaded
            /\ sessions' = [sessions EXCEPT ![s].patient_loaded = (r.outcome = "ok"),
                                            ![s].pc = "idle"]
            /\ ret' = RunResult(s, "start_new_session", r.outcome)
            /\ llm_request' = r.req
            /\ UNCHANGED <<client, single_vars>>

Two_AskQuestion(s) ==
    \E question \in UiQuestions, llm \in {LLMFail} \cup UiResponses :
        LET r == prompt_llama3(client, "PatientResponse", [question |-> question], llm)
        IN  /\ sessions[s].pc = "configured"
            /\ sessions[s].patient_loaded
            /\ sessions' = [sessions EXCEPT ![s].pc = "idle"]
            /\ ret' = RunResult(s, "ask_question", r.outcome)
            /\ llm_request' = r.req
            /\ UNCHANGED <<client, single_vars>>

Two_SubmitDiagnosis(s) ==
    \E diagnosis \in Diagnoses, llm \in {LLMFail} \cup UiEvaluations :
        LET r == prompt_llama3(client, "DiagnosticEvaluation", [diagnosis |-> diagnosis], llm)
        IN  /\ sessions[s].pc = "configured"
            /\ sessions[s].patient_loaded
            /\ ~sessions[s].diagnosis_submitted
            /\ sessions' = [sessions EXCEPT ![s].diagnosis_submitted = (r.outcome = "ok"),
                                            ![s].pc = "idle"]
            /\ ret' = RunResult(s, "submit_diagnosis", r.outcome)
            /\ llm_request' = r.req
            /\ UNCHANGED <<client, single_vars>>

Two_StartNewCase(s) ==
    /\ sessions[s].pc = "configured"
    /\ sessions[s].patient_loaded
    /\ sessions' = [sessions EXCEPT ![s].patient_loaded = FALSE,
                                    ![s].diagnosis_submitted = FALSE,
                                    ![s].pc = "idle"]
    /\ ret' = RunResult(s, "start_new_case", "ok")
    /\ llm_request' = NoRequest
    /\ UNCHANGED <<client, single_vars>>

NextTwo ==
    \E s \in Sessions :
        \/ Two_EnterApiKey(s)
        \/ Two_BeginRun(s)
        \/ Two_GenerateCase(s)
        \/ Two_AskQuestion(s)
        \/ Two_SubmitDiagnosis(s)
        \/ Two_StartNewCase(s)

SpecTwo == Init /\ [][NextTwo]_vars

-----------------------------------------------------------------------------
(* Properties *)

Manager == session_manager
Handler == session_manager.conversation_handler
Turns == session_manager.conversation_handler.conversation_history
HasCase == session_manager # NoneObj /\ session_manager.current_patient # NoneObj
SessionState ==
    <<session_manager, patient_loaded, chat_history, diagnosis_submitted, diagnosis_result>>

\* C1: submit_diagnosis on a manager without an active case ends in an error
\* and issues no LLM request, also when a client is configured.
C1_SubmitWithoutCaseRejected ==
    (ret.op = "submit_diagnosis" /\ Manager.current_patient = NoneObj)
        => /\ ret.outcome \notin {"ok", "LLMError"}
           /\ ret.value = NoneObj
           /\ llm_request = NoRequest

C1_Witness ==
    /\ ret.op = "submit_diagnosis"
    /\ Manager.current_patient = NoneObj
    /\ client \in Keys
    /\ Len(Manager.questions_asked) > 0

\* C2: a step whose LLM request failed leaves the session state (manager,
\* handler, case, metadata and UI flags) as it was before the step.
C2_FailedRequestLeavesState ==
    [][ret'.outcome = "LLMError" => SessionState' = SessionState]_vars

\* C3 as stated: the handler holds one turn per ask_question call made on the
\* case, whether or not the call's request succeeded.
C3_OneTurnPerCall ==
    HasCase => Len(Turns) = history.asks

\* C3 amended: the handler holds one turn per ask_question call whose LLM
\* request succeeded (a failed call adds no turn), and a call never removes,
\* reorders or changes an existing turn.
C3_OneTurnPerAnsweredCall ==
    /\ [](HasCase => Len(Turns) = history.answered)
    /\ [][(ret'.op = "ask_question" /\ HasCase)
            => /\ IsPrefix(Turns, Turns')
               /\ Len(Turns') = Len(Turns) + (IF ret'.outcome = "ok" THEN 1 ELSE 0)]_vars

C3_Witness ==
    /\ HasCase
    /\ ret.op = "ask_question"
    /\ history.answered >= 4
    /\ history.asks > history.answered
    /\ Turns[1].student # Turns[2].student

\* C4: the prior turns in the prompt of a respond_to_question call are the
\* last min(3, k) of the k turns recorded before the call, oldest first.
C4_PromptHasLastThreeTurns ==
    [][(ret'.op = "ask_question" /\ llm_request'.sent)
        => LET k == Len(Turns)
               n == IF k < 3 THEN k ELSE 3
           IN  /\ Len(llm_request'.text.recent) = n
               /\ \A i \in 1..n :
                    /\ llm_request'.text.recent[i].student = Turns[k - n + i].student
                    /\ llm_request'.text.recent[i].patient = Turns[k - n + i].patient]_vars

C4_Witness ==
    /\ HasCase
    /\ ret.op = "ask_question"
    /\ ret.outcome = "ok"
    /\ Len(Turns) = 5
    /\ Len(llm_request.text.recent) = 3
    /\ llm_request.text.recent[1].student = Turns[2].student
    /\ Turns[1].student # Turns[2].student
    /\ Turns[1].patient # Turns[4].patient

\* C5: ask_question, get_vital_signs, perform_physical_exam and
\* submit_diagnosis are triggered only from CaseActive (a case is loaded and
\* no diagnosis has been submitted for it).
C5_ActionsOnlyInCaseActive ==
    [][ret'.op \in {"ask_question", "get_vital_signs", "perform_physical_exam",
                    "submit_diagnosis"}
        => (patient_loaded /\ ~diagnosis_submitted)]_vars

\* C6: the session holds an evaluation record only while a diagnosis has been
\* submitted for the current case.
C6_EvaluationOnlyAfterSubmission ==
    diagnosis_result # Absent => (patient_loaded /\ diagnosis_submitted)

\* C7: after a successful start_new_session the metadata is cleared and the
\* handler is a fresh one bound to the newly generated case, whatever the
\* manager held before.
C7_StartResetsSession ==
    (ret.op = "start_new_session" /\ ret.outcome = "ok")
        => /\ Manager.questions_asked = <<>>
           /\ Manager.vitals_checked = FALSE
           /\ Manager.physical_exam_performed = <<>>
           /\ Manager.current_patient = history.case
           /\ Handler.patient_profile = history.case
           /\ Handler.conversation_history = <<>>
           /\ Handler.revealed_information = {}
           /\ Handler.question_count = 0

C7_Witness ==
    /\ ret.op = "start_new_session"
    /\ ret.outcome = "ok"
    /\ history.over
    /\ Manager.current_patient.patient_id = "P2"

\* C8: get_vital_signs returns the vitals generated with the case, and a call
\* sets vitals_checked and changes nothing else.
C8_VitalsFixed ==
    /\ []((ret.op = "get_vital_signs" /\ ret.outcome = "ok")
            => /\ ret.value = history.case.vital_signs
               /\ Manager.vitals_checked)
    /\ [][ret'.op = "get_vital_signs"
            => /\ session_manager' = [session_manager EXCEPT !.vitals_checked = TRUE]
               /\ llm_request' = NoRequest
               /\ UNCHANGED <<client, ui_vars>>]_vars

C8_Witness ==
    /\ ret.op = "get_vital_signs"
    /\ ret.outcome = "ok"
    /\ history.answered > 0
    /\ history.exams # <<>>
    /\ history.over

\* C9: the statistics a successful submit_diagnosis returns count every
\* ask_question call since the case started, tell whether get_vital_signs
\* was called, list the examined areas in order, and list each revealed fact
\* of the recorded turns once.
C9_StatsReflectActions ==
    (ret.op = "submit_diagnosis" /\ ret.outcome = "ok")
        => LET stats == ret.value.session_stats
           IN  /\ stats.questions_asked = history.asks
               /\ stats.vitals_checked = history.vitals
               /\ stats.physical_exams = history.exams
               /\ Range(stats.revealed_info) =
                     UNION { Range(Turns[i].reveals_info) : i \in 1..Len(Turns) }
               /\ \A i, j \in 1..Len(stats.revealed_info) :
                     stats.revealed_info[i] = stats.revealed_info[j] => i = j

C9_Witness ==
    /\ ret.op = "submit_diagnosis"
    /\ ret.outcome = "ok"
    /\ ret.value.session_stats.questions_asked = 2
    /\ Manager.questions_asked[1] = Manager.questions_asked[2]
    /\ ret.value.session_stats.vitals_checked
    /\ Len(ret.value.session_stats.physical_exams) = 2
    /\ Len(ret.value.session_stats.revealed_info) = 2
    /\ Len(Turns) = 2

\* C10: get_hint returns one of the eight fixed strings, each of them can be
\* returned in every state, and a call changes no session state and issues
\* no LLM request.
C10_HintFrame ==
    /\ Cardinality(Range(hints)) = 8
    /\ [](\A h \in Range(hints) : ENABLED (Api_get_hint /\ ret'.value = h))
    /\ [][ret'.op = "get_hint"
            => /\ ret'.outcome = "ok"
               /\ ret'.value \in Range(hints)
               /\ llm_request' = NoRequest
               /\ UNCHANGED <<session_manager, client, ui_vars>>]_vars

C10_Witness ==
    /\ ret.op = "get_hint"
    /\ ret.value = hints[8]
    /\ HasCase
    /\ Len(Manager.questions_asked) > 0

C12_NoKeyNoAction ==
    [][api_key_input = ""
        => /\ ret'.op = "render"
           /\ SessionState' = SessionState
           /\ history' = history
           /\ llm_request' = NoRequest]_vars

C12_Witness ==
    /\ api_key_input = ""
    /\ ss_api_key \in Keys
    /\ patient_loaded
    /\ diagnosis_submitted

Phase ==
    IF ~patient_loaded THEN "NoCase"
    ELSE IF diagnosis_submitted THEN "DiagnosisSubmitted" ELSE "CaseActive"

\* C13: a failed LLM request leaves the session where it was (NoCase after a
\* failed generation, the same case after a failed question or submission),
\* and the actions of that state stay enabled and can succeed.
C13_FailureKeepsSessionUsable ==
    /\ [][ret'.outcome = "LLMError"
            => /\ Phase' = Phase
               /\ patient_loaded
                    => session_manager'.current_patient = session_manager.current_patient]_vars
    /\ []((ret.outcome = "LLMError" /\ Phase = "NoCase")
            => /\ ret.op = "start_new_session"
               /\ ENABLED (main_GenerateCase /\ patient_loaded'))
    /\ []((ret.outcome = "LLMError" /\ Phase = "CaseActive")
            => /\ ret.op \in {"ask_question", "submit_diagnosis"}
               /\ Manager.current_patient = history.case
               /\ ENABLED main_GetHint
               /\ ENABLED main_CheckVitals
               /\ Len(Manager.physical_exam_performed) < UiMaxExams
                    => ENABLED main_PerformExam
               /\ Len(Manager.questions_asked) < UiMaxAsk
                    => ENABLED (main_AskQuestion /\ ret'.outcome = "ok")
               /\ ENABLED (main_SubmitDiagnosis /\ diagnosis_submitted'))

C13_Witness ==
    /\ ret.op = "ask_question"
    /\ ret.outcome = "LLMError"
    /\ Phase = "CaseActive"
    /\ Len(Manager.questions_asked) < UiMaxAsk
    /\ Len(Manager.physical_exam_performed) < UiMaxExams

\* C14: perform_physical_exam appends the area to physical_exam_performed,
\* returns the findings generated with the case whatever the area, and
\* changes nothing else.
C14_ExamAppendsOnly ==
    [][ret'.op = "perform_physical_exam"
        => /\ \E area \in ExamAreas :
                /\ history'.exams = Append(history.exams, area)
                /\ session_manager' =
                      [session_manager EXCEPT !.physical_exam_performed = Append(@, area)]
           /\ session_manager.current_patient # NoneObj
                => /\ ret'.outcome = "ok"
                   /\ ret'.value = history.case.physical_exam_findings
           /\ llm_request' = NoRequest
           /\ UNCHANGED <<client, ui_vars>>]_vars

C14_Witness ==
    /\ ret.op = "perform_physical_exam"
    /\ ret.outcome = "ok"
    /\ Manager.physical_exam_performed = <<"Cardiovascular", "Cardiovascular">>
    /\ history.answered > 0

\* C15: the page moves NoCase -> CaseActive -> DiagnosisSubmitted and back to
\* NoCase only; a diagnosis is submitted, and the evaluator asked, only from
\* CaseActive, so the stored evaluation stays as it is until a new case.
C15_SubmitOncePerCase ==
    /\ [][(<<Phase, Phase'>> \in
            { <<"NoCase", "NoCase">>, <<"NoCase", "CaseActive">>,
              <<"CaseActive", "CaseActive">>, <<"CaseActive", "DiagnosisSubmitted">>,
              <<"CaseActive", "NoCase">>,
              <<"DiagnosisSubmitted", "DiagnosisSubmitted">>,
              <<"DiagnosisSubmitted", "NoCase">> })]_vars
    /\ [][(ret'.op = "submit_diagnosis"
           \/ (llm_request'.sent /\ llm_request'.schema = "DiagnosticEvaluation")
           \/ (Phase' = "DiagnosisSubmitted" /\ Phase # "DiagnosisSubmitted"))
            => Phase = "CaseActive"]_vars
    /\ [][(Phase = "DiagnosisSubmitted" /\ Phase' = "DiagnosisSubmitted")
            => diagnosis_result'.evaluation = diagnosis_result.evaluation]_vars

C15_Witness ==
    /\ Phase = "DiagnosisSubmitted"
    /\ ret.op = "ask_question"
    /\ ret.outcome = "ok"

\* C16: patient_loaded implies a manager holding a case and a handler for it,
\* and diagnosis_submitted implies patient_loaded and a stored result of the
\* loaded case.
C16_FlagsImplyObjects ==
    /\ patient_loaded
         => /\ session_manager # NoneObj
            /\ session_manager.current_patient \in PatientProfile
            /\ session_manager.conversation_handler # NoneObj
            /\ session_manager.conversation_handler.patient_profile
                  = session_manager.current_patient
    /\ diagnosis_submitted
         => /\ patient_loaded
            /\ diagnosis_result # Absent
            /\ diagnosis_result.correct_diagnosis
                  = session_manager.current_patient.probable_diagnosis

C16_Witness ==
    /\ patient_loaded
    /\ ~diagnosis_submitted
    /\ diagnosis_result # Absent
    /\ diagnosis_result.correct_diagnosis # Manager.current_patient.probable_diagnosis

====
